---------------------------- MODULE Spec2Model ----------------------------
(***************************************************************************)
(* A model of the WebSurferAgent turn-dispatch relay                       *)
(* (autogen/agentchat/contrib/web_surfer.py) and of the cache backend      *)
(* cascade (autogen/cache/cache_factory.py).                               *)
(*                                                                         *)
(* Python values are tagged records so that None, a str and a dict can be  *)
(* compared.  A str is kept as the sequence of its lines (the text split   *)
(* on "\n"), so "" is <<"">> and "a\nb\n" is <<"a", "b", "">>.             *)
(***************************************************************************)
EXTENDS Integers, Sequences, FiniteSets, TLC

(***************************************************************************)
(* Bounds of the model.                                                    *)
(***************************************************************************)
\* the longest visit history a session is driven to
MaxHistory == 3
\* the most tool invocations one Planning reply encodes
MaxCalls == 2
\* the most inbound messages handed to one turn
MaxInbound == 2
\* the most registrations attempted after construction
MaxExtraRegs == 3
\* the most lines of a page content handed to the summarization buffer
MaxContentLines == 4

(***************************************************************************)
(* Python values.                                                          *)
(***************************************************************************)
PyNone == [kind |-> "None"]

PyStr(t) == [kind |-> "str", s |-> t]

IsNone(v) == v.kind = "None"

\* the empty str ""
EmptyText == <<"">>

\* s + t on texts kept as lines: the last line of s continues into the
\* first line of t
Cat(s, t) == SubSeq(s, 1, Len(s) - 1) \o <<s[Len(s)] \o t[1]>> \o SubSeq(t, 2, Len(t))

RECURSIVE DropLeadingBlank(_)
DropLeadingBlank(t) ==
    IF Len(t) > 1 /\ t[1] = "" THEN DropLeadingBlank(Tail(t)) ELSE t

RECURSIVE DropTrailingBlank(_)
DropTrailingBlank(t) ==
    IF Len(t) > 1 /\ t[Len(t)] = "" THEN DropTrailingBlank(SubSeq(t, 1, Len(t) - 1)) ELSE t

\* str.strip() on a text whose lines carry no blanks of their own: the
\* leading and the trailing line breaks go
Strip(t) == DropTrailingBlank(DropLeadingBlank(t))

\* str(n) of a small non-negative integer
IntStr(n) ==
    CASE n = 0 -> "0" [] n = 1 -> "1" [] n = 2 -> "2" [] n = 3 -> "3"
      [] n = 4 -> "4" [] n = 5 -> "5" [] n = 6 -> "6" [] n = 7 -> "7"
      [] n = 8 -> "8" [] n = 9 -> "9" [] OTHER -> "many"

(***************************************************************************)
(* The web the session browses, and the Session State (SimpleTextBrowser,  *)
(* consumed through its navigation/query interface).                       *)
(***************************************************************************)
\* Python's None among the str values (title, url, question) of the model
None == "<None>"

StartPage == "about:blank"

Urls == {"http://a", "http://b"}

Queries == {"q1", "q2"}

\* f"bing: {query}"
SearchAddress(query) == "bing: " \o query

Addresses == {StartPage} \cup Urls \cup {SearchAddress(q) : q \in Queries}

\* lines of text one viewport page holds
ViewportLines == 2

\* what a fetch of the address yields: the page title and the page content
PageTitle(address) ==
    CASE address = "http://a" -> "A"
      [] address = "http://b" -> "B"
      [] address = "bing: q1" -> "q1 - Search"
      [] address = "bing: q2" -> "q2 - Search"
      [] OTHER -> None

PageContent(address) ==
    CASE address = "http://a" -> <<"a1", "a2", "a3", "a4", "a5">>
      [] address = "http://b" -> <<"b1">>
      [] address = "bing: q1" -> <<"1. [A](http://a)", "2. [B](http://b)", "3. plain">>
      [] address = "bing: q2" -> <<"no results for q2">>
      [] OTHER -> EmptyText

Min(a, b) == IF a < b THEN a ELSE b

Max(a, b) == IF a > b THEN a ELSE b

\* the (first line, last line) bounds of the viewport pages of a content; a
\* content always has at least one page
SplitPages(content) ==
    LET n == Max(1, (Len(content) + ViewportLines - 1) \div ViewportLines)
    IN  [i \in 1..n |-> <<(i - 1) * ViewportLines + 1, Min(i * ViewportLines, Len(content))>>]

\* SimpleTextBrowser(): open on the start page
NewBrowser(now) ==
    [address |-> StartPage,
     page_title |-> PageTitle(StartPage),
     page_content |-> PageContent(StartPage),
     viewport_pages |-> SplitPages(PageContent(StartPage)),
     viewport_current_page |-> 0,
     history |-> <<<<StartPage, now>>>>,
     find_query |-> None,
     find_last |-> -1]

\* browser.visit_page(path): the address is recorded in the history, the
\* page is fetched and the viewport returns to its first page
visit_page(b, path, now) ==
    [b EXCEPT !.address = path,
              !.page_title = PageTitle(path),
              !.page_content = PageContent(path),
              !.viewport_pages = SplitPages(PageContent(path)),
              !.viewport_current_page = 0,
              !.history = Append(b.history, <<path, now>>),
              !.find_query = None,
              !.find_last = -1]

\* browser.page_up() / browser.page_down(): one page, clamped at the edges
page_up(b) ==
    [b EXCEPT !.viewport_current_page = Max(b.viewport_current_page - 1, 0)]

page_down(b) ==
    [b EXCEPT !.viewport_current_page =
                 Min(b.viewport_current_page + 1, Len(b.viewport_pages) - 1)]

\* browser.viewport: the text of the current viewport page
Viewport(b) ==
    LET bounds == b.viewport_pages[b.viewport_current_page + 1]
    IN  IF bounds[2] < bounds[1] THEN EmptyText
        ELSE SubSeq(b.page_content, bounds[1], bounds[2])

\* whether the search string occurs on viewport page i (0-based); "*" in
\* the search string matches any run of characters, so "a*" matches every
\* line of http://a
LineMatches(line, search_string) ==
    \/ line = search_string
    \/ search_string = "a*" /\ line \in {"a1", "a2", "a3", "a4", "a5"}

PageMatches(b, i, search_string) ==
    LET bounds == b.viewport_pages[i + 1]
    IN  \E k \in bounds[1]..bounds[2] : LineMatches(b.page_content[k], search_string)

\* the first viewport page at or after `start` (wrapping around) on which
\* the search string occurs, or -1
RECURSIVE ScanFrom(_, _, _, _)
ScanFrom(b, search_string, start, tried) ==
    LET n == Len(b.viewport_pages)
        i == start % n
    IN  IF tried >= n THEN -1
        ELSE IF PageMatches(b, i, search_string) THEN i
        ELSE ScanFrom(b, search_string, i + 1, tried + 1)

\* browser.find_on_page(query): <<match or None, browser after>>; a match
\* moves the viewport to its page
FindResult(b, search_string, start) ==
    LET hit == ScanFrom(b, search_string, start, 0)
    IN  IF hit < 0
        THEN [found |-> FALSE,
              b |-> [b EXCEPT !.find_query = search_string, !.find_last = -1]]
        ELSE [found |-> TRUE,
              b |-> [b EXCEPT !.find_query = search_string, !.find_last = hit,
                              !.viewport_current_page = hit]]

find_on_page(b, search_string) ==
    FindResult(b, search_string, b.viewport_current_page)

\* browser.find_next(): the next occurrence of the last search string
find_next(b) ==
    IF b.find_query = None THEN [found |-> FALSE, b |-> b]
    ELSE FindResult(b, b.find_query,
                    IF b.find_last < 0 THEN b.viewport_current_page ELSE b.find_last + 1)


(***************************************************************************)
(* The tool handlers: closures over the browser registered by              *)
(* WebSurferAgent._register_functions.                                     *)
(***************************************************************************)
\* the index (1-based) of the latest earlier visit of `address`, scanning
\* the history from its second last entry back; 0 when there is none
RECURSIVE PreviousVisit(_, _, _)
PreviousVisit(history, address, i) ==
    IF i < 1 THEN 0
    ELSE IF history[i][1] = address THEN i
    ELSE PreviousVisit(history, address, i - 1)

ViewportLine(current_page, total_pages) ==
    "Viewport position: Showing page " \o IntStr(current_page + 1)
        \o " of " \o IntStr(total_pages) \o "."

\* header += line + "\n", when the condition holds
AddLine(header, condition, line) ==
    IF condition THEN Cat(header, <<line, "">>) ELSE header

PreviouslyVisitedLine(b, now, i) ==
    "You previously visited this page "
        \o IntStr(IF i > 0 THEN now - b.history[i][2] ELSE 0) \o " seconds ago."

AddPreviousVisit(header, b, now, i) ==
    AddLine(header, i > 0, PreviouslyVisitedLine(b, now, i))

\* _browser_state(): (header, viewport)
BrowserStateHeader(b, now) ==
    AddLine(
        AddPreviousVisit(
            AddLine(<<"Address: " \o b.address, "">>,
                    b.page_title # None, "Title: " \o b.page_title),
            b, now, PreviousVisit(b.history, b.address, Len(b.history) - 1)),
        TRUE, ViewportLine(b.viewport_current_page, Len(b.viewport_pages)))

_browser_state(b, now) == <<BrowserStateHeader(b, now), Viewport(b)>>

\* "\n=======================\n"
Separator == <<"", "=======================", "">>

\* header.strip() + "\n=======================\n" + content
Envelope(header, content) == Cat(Cat(Strip(header), Separator), content)

\* what a handler leaves: the browser, the str it returns or the exception
\* it raises, and the prompts it sent to the summarizer
Returned(b, text) == [b |-> b, raised |-> FALSE, text |-> text, prompts |-> <<>>]

StateReply(b, now) == Returned(b, Envelope(BrowserStateHeader(b, now), Viewport(b)))

_informational_search(b, now, query) ==
    StateReply(visit_page(b, SearchAddress(query), now), now)

\* re.search(r"\[.*?\]\((http.*?)\)", line): the target of the first
\* markdown link of the line, or None
LinkIn(line) ==
    CASE line = "1. [A](http://a)" -> "http://a"
      [] line = "2. [B](http://b)" -> "http://b"
      [] OTHER -> None

RECURSIVE FirstLink(_, _)
FirstLink(content, k) ==
    IF k > Len(content) THEN None
    ELSE IF LinkIn(content[k]) # None THEN LinkIn(content[k])
    ELSE FirstLink(content, k + 1)

\* navigational search that stays on the search results
_navigational_search_staying(b, now, query) ==
    StateReply(visit_page(b, SearchAddress(query), now), now)

\* "if m: self.browser.visit_page(m.group(1))"
FollowLink(b, now, m) == IF m # None THEN visit_page(b, m, now) ELSE b

FollowFirstLink(b, now) == FollowLink(b, now, FirstLink(b.page_content, 1))

_navigational_search(b, now, query) ==
    StateReply(FollowFirstLink(visit_page(b, SearchAddress(query), now), now), now)

\* the handler registered as visit_page and the one registered as
\* download_file: two functions of one body
_visit_page(b, now, url) == StateReply(visit_page(b, url, now), now)

_download_file(b, now, url) == StateReply(visit_page(b, url, now), now)

_page_up(b, now) == StateReply(page_up(b), now)

\* page_down that goes round to the first page after the last
_page_down_wrapping(b, now) ==
    StateReply([b EXCEPT !.viewport_current_page =
                            (b.viewport_current_page + 1) % Len(b.viewport_pages)], now)

\* page_down with the header and the viewport read before the scroll
_page_down_stale(b, now) ==
    Returned(page_down(b), Envelope(BrowserStateHeader(b, now), Viewport(b)))

_page_down(b, now) == StateReply(page_down(b), now)

\* the reply of the two find handlers: the notice under the header when
\* nothing was found, the viewport otherwise
FindReply(r, now, notice) ==
    IF ~r.found
    THEN Returned(r.b, Envelope(BrowserStateHeader(r.b, now), notice))
    ELSE StateReply(r.b, now)

\* find_on_page_ctrl_f that returns the viewport whether or not the search
\* string was found
_find_on_page_viewport(b, now, search_string) ==
    StateReply(find_on_page(b, search_string).b, now)

_find_on_page_ctrl_f(b, now, search_string) ==
    FindReply(find_on_page(b, search_string), now,
              Cat(Cat(<<"The search string '">>, <<search_string>>),
                  <<"' was not found on this page.">>))

_find_next(b, now) ==
    FindReply(find_next(b), now, <<"The search string was not found on this page.">>)

(***************************************************************************)
(* read_page_and_answer and summarize_page.                                *)
(***************************************************************************)
\* limit = 32000
TokenLimit == 32000

\* "if tokens + 1024 > limit": the room left for the summary
SummaryRoom == 1024

\* count_token: the tokens of one line of the model's pages
LineTokens(line) ==
    CASE line \in {"a1", "a2", "a3", "a4", "a5"} -> 9000
      [] line = "X" -> 40000
      [] line = "" -> 0
      [] OTHER -> 10

\* count_token(text): the tokens of its lines and one for each line break
RECURSIVE SumLineTokens(_, _)
SumLineTokens(text, k) ==
    IF k > Len(text) THEN 0 ELSE LineTokens(text[k]) + SumLineTokens(text, k + 1)

count_token(text) == SumLineTokens(text, 1) + (Len(text) - 1)

\* a run of n line breaks
RECURSIVE LineBreaks(_)
LineBreaks(n) == IF n = 0 THEN EmptyText ELSE <<"">> \o LineBreaks(n - 1)

\* the next line after line k that is not blank, or the last line
NextLine(content, k) ==
    IF \E j \in (k + 1)..Len(content) : content[j] # ""
    THEN CHOOSE j \in (k + 1)..Len(content) :
            /\ content[j] # ""
            /\ \A i \in (k + 1)..(j - 1) : content[i] = ""
    ELSE Len(content)

\* re.split(r"([\r\n]+)", page_content): the lines and, between them, the
\* runs of line breaks (a blank line lengthens the run before it)
RECURSIVE SplitLines(_, _)
SplitLines(content, k) ==
    IF k > Len(content) THEN <<>>
    ELSE IF k = Len(content) THEN <<(<<content[k]>>)>>
    ELSE <<(<<content[k]>>), LineBreaks(NextLine(content, k) - k)>>
             \o SplitLines(content, NextLine(content, k))

\* the loop with the count taken of the buffer before the piece is added
RECURSIVE FillBufferLate(_, _, _)
FillBufferLate(buffer, pieces, k) ==
    IF k > Len(pieces) THEN buffer
    ELSE IF count_token(buffer) + SummaryRoom > TokenLimit THEN buffer
    ELSE FillBufferLate(Cat(buffer, pieces[k]), pieces, k + 1)

\* the loop that fills the buffer: stop at the first piece that would take
\* the count past the limit
RECURSIVE FillBuffer(_, _, _)
FillBuffer(buffer, pieces, k) ==
    IF k > Len(pieces) THEN buffer
    ELSE IF count_token(Cat(buffer, pieces[k])) + SummaryRoom > TokenLimit THEN buffer
    ELSE FillBuffer(Cat(buffer, pieces[k]), pieces, k + 1)

SummaryBuffer(content) == Strip(FillBuffer(EmptyText, SplitLines(content, 1), 1))

SummaryPrompt(question, buffer) ==
    IF question # None
    THEN Cat(<<"Please summarize the following into one or two paragraphs with respect to '"
                 \o question \o "':", "", "">>, buffer)
    ELSE Cat(<<"Please summarize the following into one or two paragraph:", "", "">>, buffer)

\* the text the summarizer answers with
SummaryText == <<"summary">>

\* the rest of the handler without the "if len(buffer) == 0" return
SummarizeAlways(b, question, buffer, summarizer_ok) ==
    [b |-> b, raised |-> ~summarizer_ok,
     text |-> IF summarizer_ok THEN SummaryText ELSE <<"summarizer failed">>,
     prompts |-> <<SummaryPrompt(question, buffer)>>]

\* the rest of the handler, once the page is the one to read and the
\* buffer is filled; summarizer_ok: whether summarization_client.create
\* returns (it raises otherwise)
Summarize(b, question, buffer, summarizer_ok) ==
    IF buffer = EmptyText THEN Returned(b, <<"Nothing to summarize.">>)
    ELSE [b |-> b, raised |-> ~summarizer_ok,
          text |-> IF summarizer_ok THEN SummaryText ELSE <<"summarizer failed">>,
          prompts |-> <<SummaryPrompt(question, buffer)>>]

SummarizePage(b, question, summarizer_ok) ==
    Summarize(b, question, SummaryBuffer(b.page_content), summarizer_ok)

\* read_page_and_answer that navigates whenever a url is given, also to
\* the address the session is on
_read_page_and_answer_revisiting(b, now, question, url, summarizer_ok) ==
    SummarizePage(IF url # None THEN visit_page(b, url, now) ELSE b,
                  question, summarizer_ok)

\* read_page_and_answer with a navigation that keeps the viewport where it
\* was on the page before
_read_page_and_answer_scrolled(b, now, question, url, summarizer_ok) ==
    SummarizePage(IF url # None /\ url # b.address
                  THEN [visit_page(b, url, now) EXCEPT
                           !.viewport_current_page = b.viewport_current_page]
                  ELSE b,
                  question, summarizer_ok)

_read_page_and_answer(b, now, question, url, summarizer_ok) ==
    SummarizePage(IF url # None /\ url # b.address THEN visit_page(b, url, now) ELSE b,
                  question, summarizer_ok)

_summarize_page(b, now, url, summarizer_ok) ==
    _read_page_and_answer(b, now, None, url, summarizer_ok)

(***************************************************************************)
(* The Tool Registry.                                                      *)
(***************************************************************************)
\* the tools _register_functions declares, in order: the name given to
\* register_for_llm and the function it decorates
BrowsingTools ==
    <<[name |-> "informational_web_search", handler |-> "_informational_search"],
      [name |-> "navigational_web_search", handler |-> "_navigational_search"],
      [name |-> "visit_page", handler |-> "_visit_page"],
      [name |-> "download_file", handler |-> "_download_file"],
      [name |-> "page_up", handler |-> "_page_up"],
      [name |-> "page_down", handler |-> "_page_down"],
      [name |-> "find_on_page_ctrl_f", handler |-> "_find_on_page_ctrl_f"],
      [name |-> "find_next", handler |-> "_find_next"]>>

\* the tools declared only "if self.summarization_client is not None"
SummarizationTools ==
    <<[name |-> "read_page_and_answer", handler |-> "_read_page_and_answer"],
      [name |-> "summarize_page", handler |-> "_summarize_page"]>>

\* the declarations without the "if self.summarization_client is not None"
DeclaredToolsAll(summarization_client) == BrowsingTools \o SummarizationTools

DeclaredTools(summarization_client) ==
    IF summarization_client THEN BrowsingTools \o SummarizationTools ELSE BrowsingTools

ToolNames(reg) == {reg[i].name : i \in 1..Len(reg)}

\* the handler bound to a name of the registry
HandlerOf(reg, name) ==
    LET i == CHOOSE k \in 1..Len(reg) : reg[k].name = name IN reg[i].handler

\* register(descriptor) with dict.update semantics: a later registration
\* replaces the handler of a name already there
RegisterOverriding(reg, tool) ==
    IF tool.name \in ToolNames(reg)
    THEN [reg |-> [i \in 1..Len(reg) |-> IF reg[i].name = tool.name THEN tool ELSE reg[i]],
          error |-> "none"]
    ELSE [reg |-> Append(reg, tool), error |-> "none"]

\* register(descriptor): fails with DuplicateToolError if the name already
\* exists, and then leaves the registry as it was
Register(reg, tool) ==
    IF tool.name \in ToolNames(reg)
    THEN [reg |-> reg, error |-> "DuplicateToolError"]
    ELSE [reg |-> Append(reg, tool), error |-> "none"]

\* the registrations of _register_functions, one after the other; a
\* failing registration ends the construction
RECURSIVE RegisterAll(_, _, _)
RegisterAll(reg, tools, k) ==
    IF k > Len(tools) THEN [reg |-> reg, error |-> "none"]
    ELSE LET r == Register(reg, tools[k])
         IN  IF r.error # "none" THEN r ELSE RegisterAll(r.reg, tools, k + 1)

_register_functions(summarization_client) ==
    RegisterAll(<<>>, DeclaredTools(summarization_client), 1)

\* the shapes of an llm configuration argument: None, False and a dict
LlmConfigs == {"None", "False", "config"}

\* self.summarizer_llm_config: the argument, or what llm_config gives when
\* the argument is None (None, False, or a copy of the configuration)
SummarizerLlmConfig(summarizer_llm_config, llm_config) ==
    IF summarizer_llm_config = "None" THEN llm_config ELSE summarizer_llm_config

\* "None if self.summarizer_llm_config is False else OpenAIWrapper(
\* **self.summarizer_llm_config)": no client for False, a client for a
\* configuration; None is not False and cannot be unpacked
SummarizerClient(config) ==
    CASE config = "False" -> [raised |-> "none", client |-> FALSE]
      [] config = "None" -> [raised |-> "TypeError", client |-> FALSE]
      [] OTHER -> [raised |-> "none", client |-> TRUE]

\* _create_summarizer_client(summarizer_llm_config, llm_config): whether a
\* summarization client exists, or the exception raised
_create_summarizer_client(summarizer_llm_config, llm_config) ==
    SummarizerClient(SummarizerLlmConfig(summarizer_llm_config, llm_config))

\* "if inner_llm_config not in [None, False]: self._register_functions()"
RegistryOf(llm_config, summarization_client) ==
    IF llm_config \notin {"None", "False"}
    THEN _register_functions(summarization_client).reg
    ELSE <<>>

\* the rest of __init__ once _create_summarizer_client has run
Constructed(llm_config, c) ==
    IF c.raised # "none"
    THEN [raised |-> c.raised, summarization_client |-> FALSE, registry |-> <<>>]
    ELSE [raised |-> "none", summarization_client |-> c.client,
          registry |-> RegistryOf(llm_config, c.client)]

\* WebSurferAgent(llm_config=..., summarizer_llm_config=...): the agent
\* constructed, or the exception the constructor raises
WebSurferAgent(llm_config, summarizer_llm_config) ==
    Constructed(llm_config, _create_summarizer_client(summarizer_llm_config, llm_config))

(***************************************************************************)
(* Messages, the Planning role's replies and the Execution role.           *)
(***************************************************************************)
Msg(role, content, tool_calls) ==
    [kind |-> "dict", role |-> role, content |-> content, tool_calls |-> tool_calls]

Call(name, arg, question) == [name |-> name, arg |-> arg, question |-> question]

\* the tool invocations a Planning reply may encode, with their arguments
SearchStrings == {"a*", "zzz"}

Questions == {None, "why"}

ToolCalls ==
    {Call("informational_web_search", "q1", None)}
      \cup {Call("navigational_web_search", q, None) : q \in Queries}
      \cup {Call("visit_page", u, None) : u \in Urls}
      \cup {Call("download_file", "http://b", None)}
      \cup {Call("page_up", None, None), Call("page_down", None, None),
            Call("find_next", None, None)}
      \cup {Call("find_on_page_ctrl_f", t, None) : t \in SearchStrings}
      \cup {Call("read_page_and_answer", None, q) : q \in Questions}
      \cup {Call("read_page_and_answer", "http://a", "why")}
      \cup {Call("summarize_page", u, None) : u \in {None, "http://b"}}
      \cup {Call("open_new_tab", None, None)}

\* the invocations a reply of several invocations is made of
SeveralCalls ==
    {Call("page_down", None, None), Call("visit_page", "http://a", None),
     Call("open_new_tab", None, None)}

RECURSIVE SeqsOf(_, _)
SeqsOf(S, n) ==
    IF n = 0 THEN {<<>>}
    ELSE {Append(q, x) : q \in SeqsOf(S, n - 1), x \in S}

\* the replies the Planning role's model may give to the dispatched message
PlanningReplies ==
    {Msg("assistant", PyStr(<<"It is on page 2.">>), <<>>),
     Msg("assistant", PyNone, <<>>)}
      \cup {Msg("assistant", PyNone, <<c>>) : c \in ToolCalls}
      \cup {Msg("assistant", PyNone, cs) :
              cs \in UNION {SeqsOf(SeveralCalls, n) : n \in 2..MaxCalls}}

\* the visits of the session one invocation can make
VisitsOf(call) ==
    CASE call.name = "navigational_web_search" -> 2
      [] call.name \in {"informational_web_search", "visit_page", "download_file"} -> 1
      [] call.name \in {"read_page_and_answer", "summarize_page"} ->
            IF call.arg # None THEN 1 ELSE 0
      [] OTHER -> 0

RECURSIVE VisitsOfAll(_, _)
VisitsOfAll(calls, k) ==
    IF k > Len(calls) THEN 0 ELSE VisitsOf(calls[k]) + VisitsOfAll(calls, k + 1)

\* func(**arguments) for the handler bound to the invoked name
RunHandler(handler, call, b, now, summarizer_ok) ==
    CASE handler = "_informational_search" -> _informational_search(b, now, call.arg)
      [] handler = "_navigational_search" -> _navigational_search(b, now, call.arg)
      [] handler = "_visit_page" -> _visit_page(b, now, call.arg)
      [] handler = "_download_file" -> _download_file(b, now, call.arg)
      [] handler = "_page_up" -> _page_up(b, now)
      [] handler = "_page_down" -> _page_down(b, now)
      [] handler = "_find_on_page_ctrl_f" -> _find_on_page_ctrl_f(b, now, call.arg)
      [] handler = "_find_next" -> _find_next(b, now)
      [] handler = "_read_page_and_answer" ->
            _read_page_and_answer(b, now, call.question, call.arg, summarizer_ok)
      [] handler = "_summarize_page" -> _summarize_page(b, now, call.arg, summarizer_ok)

\* the record of one run of a handler: the invocation, the session before
\* and after it, the str returned (or the message of the exception raised)
\* and the prompts sent to the summarizer
Execution(call, b, r) ==
    [name |-> call.name, raised |-> r.raised, call |-> call, before |-> b,
     after |-> r.b, text |-> r.text, prompts |-> r.prompts]

\* what the Execution role keeps of a handler's run: its text, or the
\* error text of the exception it raised
HandlerOutcome(call, b, r) ==
    [b |-> r.b,
     text |-> IF r.raised THEN Cat(<<"Error: ">>, r.text) ELSE r.text,
     executed |-> <<Execution(call, b, r)>>,
     prompts |-> r.prompts]

\* the Execution role on one invocation: resolve the name in the registry
\* and run its handler; an unknown name and a failing handler become an
\* error text, never an exception of the turn
ExecuteFunction(reg, call, b, now, summarizer_ok) ==
    IF call.name \notin ToolNames(reg)
    THEN [b |-> b, text |-> <<"Error: Function " \o call.name \o " not found.">>,
          executed |-> <<>>, prompts |-> <<>>]
    ELSE HandlerOutcome(call, b,
             RunHandler(HandlerOf(reg, call.name), call, b, now, summarizer_ok))

\* the invocations of a message the Execution role runs: all of them, in
\* order (that the Planning role asks for at most one is an instruction in
\* its prompt, not a rule the relay enforces)
CallsToRun(tool_calls) == tool_calls

\* the results so far and the result of invocation k: the texts are joined
\* by a blank line
Accumulate(acc, r, k) ==
    [b |-> r.b,
     text |-> IF k = 1 THEN r.text ELSE Cat(Cat(acc.text, <<"", "", "">>), r.text),
     executed |-> acc.executed \o r.executed,
     prompts |-> acc.prompts \o r.prompts]

RECURSIVE ExecuteCalls(_, _, _, _, _, _)
ExecuteCalls(reg, calls, k, acc, now, summarizer_ok) ==
    IF k > Len(calls) THEN acc
    ELSE ExecuteCalls(reg, calls, k + 1,
             Accumulate(acc, ExecuteFunction(reg, calls[k], acc.b, now, summarizer_ok), k),
             now, summarizer_ok)

\* the tool-result message of the invocations run
ToolResult(r) ==
    [b |-> r.b, reply |-> Msg("tool", PyStr(r.text), <<>>),
     executed |-> r.executed, prompts |-> r.prompts]

RunCalls(reg, calls, b, now, summarizer_ok) ==
    IF calls = <<>>
    THEN [b |-> b, reply |-> PyStr(EmptyText), executed |-> <<>>, prompts |-> <<>>]
    ELSE ToolResult(ExecuteCalls(reg, calls, 1,
             [b |-> b, text |-> EmptyText, executed |-> <<>>, prompts |-> <<>>],
             now, summarizer_ok))

\* the Execution role's generate_reply on its view of the conversation: the
\* tool-result message when the last message encodes invocations, the
\* default reply "" otherwise
ExecutionReply(reg, view, b, now, summarizer_ok) ==
    RunCalls(reg, CallsToRun(view[Len(view)].tool_calls), b, now, summarizer_ok)

(***************************************************************************)
(* The cache backend cascade (cache_factory.py).                           *)
(***************************************************************************)
RequiredKeys == {"connection_string", "database_id", "container_id"}

\* the cosmosdb_config arguments: None, or a dict given by its keys
CosmosConfigs ==
    {[given |-> FALSE, keys |-> {}]}
      \cup {[given |-> TRUE, keys |-> ks] : ks \in SUBSET RequiredKeys}
      \cup {[given |-> TRUE, keys |-> RequiredKeys \cup {"cache_seed"}]}

\* the redis_url arguments: None, "" and a URL
RedisUrls == {None, "", "redis://localhost:6379/0"}

CachePathRoots == {".cache", "/tmp/cache"}

\* the seeds: a str or an int
Seeds == {[kind |-> "str", s |-> "run"], [kind |-> "str", s |-> "7"], [kind |-> "int", n |-> 7]}

\* {seed} inside an f-string
SeedStr(seed) == IF seed.kind = "int" THEN IntStr(seed.n) ELSE seed.s

\* what is installed where the program runs: the redis client library and
\* the azure-cosmos SDK
Environments == [redis : BOOLEAN, cosmos : BOOLEAN]

\* line 2 of the module, "pip install azure-cosmos", is a shell command:
\* whether the Python compiler accepts it
PipLineCompiles == FALSE

\* importing autogen.cache.cache_factory: the file is compiled, then its
\* top-level statements run, "from azure.cosmos import CosmosClient" among
\* them; the exception raised, or "none"
ModuleImport(env) ==
    IF ~PipLineCompiles THEN "SyntaxError"
    ELSE IF ~env.cosmos THEN "ImportError"
    ELSE "none"

Cache(backend, root, constructed) ==
    [raised |-> "none", backend |-> backend, root |-> root, constructed |-> constructed]

\* "if redis_url": a str that is not empty
Truthy(redis_url) == redis_url # None /\ redis_url # ""

\* "cosmosdb_config and all(key in cosmosdb_config for key in [...])"
CosmosComplete(cosmosdb_config) ==
    /\ cosmosdb_config.given
    /\ cosmosdb_config.keys # {}
    /\ \A key \in RequiredKeys : key \in cosmosdb_config.keys

\* CacheFactory.cache_factory(seed, redis_url, cache_path_root,
\* cosmosdb_config): the cache returned and the backends constructed on the
\* way; the import of a backend's module fails where its library is missing
cache_factory(env, seed, redis_url, cache_path_root, cosmosdb_config) ==
    IF Truthy(redis_url) /\ env.redis
    THEN Cache("redis", redis_url, {"redis"})
    ELSE IF CosmosComplete(cosmosdb_config) /\ env.cosmos
    THEN Cache("cosmos", None, {"cosmos"})
    ELSE Cache("disk", "./" \o cache_path_root \o "/" \o SeedStr(seed), {"disk"})

\* a caller imports the module and asks the factory for a cache
RequestCache(env, seed, redis_url, cache_path_root, cosmosdb_config) ==
    LET error == ModuleImport(env)
    IN  IF error # "none"
        THEN [raised |-> error, backend |-> "none", root |-> None, constructed |-> {}]
        ELSE cache_factory(env, seed, redis_url, cache_path_root, cosmosdb_config)

(***************************************************************************)
(* generate_surfer_reply, step by step.                                    *)
(***************************************************************************)
VARIABLES
    summarization_client,  \* whether the agent has a summarization client
    registry,              \* the Tool Registry: <<[name, handler], ...>>
    reg_last,              \* the last registration after construction
    reg_count,             \* registrations attempted after construction
    browser,               \* the Session State
    clock,                 \* time.time(), in seconds
    pc,                    \* the step of the turn the relay is at
    inbound,               \* the messages the turn was called with
    plan_view,             \* _assistant.chat_messages[_user_proxy]
    exec_view,             \* _user_proxy.chat_messages[_assistant]
    agent_reply,           \* the fallback candidate
    proxy_reply,           \* the tool-result candidate
    reply,                 \* what the turn returned
    executed,              \* the handlers run in the turn, in order
    prompts,               \* the prompts sent to the summarizer in the turn
    resolve_call,          \* one application of Resolve to given candidates
    cache_call,            \* one request for a cache
    construction,          \* the constructor call the agent comes from
    budget_call            \* one filling of the summarization buffer

turn_vars ==
    <<pc, inbound, plan_view, exec_view, agent_reply, proxy_reply, reply,
      executed, prompts>>

vars ==
    <<summarization_client, registry, reg_last, reg_count, browser, clock, pc, inbound,
      plan_view, exec_view, agent_reply, proxy_reply, reply, executed, prompts,
      resolve_call, cache_call, construction, budget_call>>

\* str(x) inside an f-string: None prints as "None"
Shown(x) == IF x = None THEN "None" ELSE x

\* the reminder of where the browser is
Reminder(b) ==
    <<"Your browser is currently open to the page '" \o Shown(b.page_title)
        \o "' at the address '" \o b.address \o "'.">>

\* v["content"]: the content of a message; None and a str cannot be
\* indexed by a key and raise TypeError
ContentOf(v) ==
    IF v.kind = "dict" THEN [raised |-> "none", value |-> v.content]
    ELSE [raised |-> "TypeError", value |-> PyNone]

Return(v) == [raised |-> "none", value |-> v]

\* proxy_reply == "": the default reply
IsDefaultReply(proxy) == proxy.kind = "str" /\ proxy.s = EmptyText

\* the resolve step without its "None if ... is None" guards
ResolveUnguarded(agent, proxy) ==
    IF IsDefaultReply(proxy) THEN ContentOf(agent) ELSE ContentOf(proxy)

\* the resolve step with the two candidates taken the other way round
ResolveSwapped(agent, proxy) ==
    IF ~IsDefaultReply(proxy)
    THEN IF IsNone(agent) THEN Return(PyNone) ELSE ContentOf(agent)
    ELSE IF IsNone(proxy) THEN Return(PyNone) ELSE ContentOf(proxy)

\* the resolve step: "if proxy_reply == "": return True, None if agent_reply
\* is None else agent_reply["content"]; else: return True, None if
\* proxy_reply is None else proxy_reply["content"]"
Resolve(agent, proxy) ==
    IF IsDefaultReply(proxy)
    THEN IF IsNone(agent) THEN Return(PyNone) ELSE ContentOf(agent)
    ELSE IF IsNone(proxy) THEN Return(PyNone) ELSE ContentOf(proxy)

\* the auto-execution step run twice over
SecondRun(r1, r2) ==
    [r2 EXCEPT !.executed = r1.executed \o r2.executed,
               !.prompts = r1.prompts \o r2.prompts]

RunAgain(reg, view, r1, now, summarizer_ok) ==
    SecondRun(r1, ExecutionReply(reg, view, r1.b, now, summarizer_ok))

AutoExecuteTwice(reg, view, b, now, summarizer_ok) ==
    RunAgain(reg, view, ExecutionReply(reg, view, b, now, summarizer_ok), now, summarizer_ok)

\* the auto-execution step: one generate_reply of the Execution role on
\* its view
AutoExecute(reg, view, b, now, summarizer_ok) ==
    ExecutionReply(reg, view, b, now, summarizer_ok)

(***************************************************************************)
(* The inbound conversations.                                              *)
(***************************************************************************)
\* the conversations a turn is called with: the request, after as many
\* earlier messages as the bound allows
Request == Msg("user", PyStr(<<"Find the answer.">>), <<>>)

Earlier == Msg("assistant", PyStr(<<"Searching.">>), <<>>)

Conversations == {[i \in 1..n |-> IF i = n THEN Request ELSE Earlier] : n \in 1..MaxInbound}

NoCacheCall ==
    [state |-> "idle", env |-> [redis |-> FALSE, cosmos |-> FALSE],
     seed |-> [kind |-> "int", n |-> 0], redis_url |-> None, cache_path_root |-> None,
     cosmosdb_config |-> [given |-> FALSE, keys |-> {}],
     result |-> [raised |-> "none", backend |-> "none", root |-> None, constructed |-> {}]]

NoReply == [raised |-> "none", value |-> PyNone]

NoBudgetCall == [state |-> "idle", content |-> EmptyText, buffer |-> EmptyText]

\* the agent is constructed with an llm_config that is a configuration, and
\* any summarizer_llm_config
Init ==
    /\ \E summarizer_llm_config \in LlmConfigs :
          \E agent \in {WebSurferAgent("config", summarizer_llm_config)} :
              /\ summarization_client = agent.summarization_client
              /\ registry = agent.registry
              /\ construction = [state |-> "first", llm_config |-> "config",
                                 summarizer_llm_config |-> summarizer_llm_config,
                                 raised |-> agent.raised]
    /\ budget_call = NoBudgetCall
    /\ reg_last = [name |-> None, handler |-> None, error |-> "none"]
    /\ reg_count = 0
    /\ clock = 0
    /\ browser = NewBrowser(0)
    /\ pc = "idle"
    /\ inbound = <<>>
    /\ plan_view = <<>>
    /\ exec_view = <<>>
    /\ agent_reply = PyNone
    /\ proxy_reply = PyNone
    /\ reply = NoReply
    /\ executed = <<>>
    /\ prompts = <<>>
    /\ resolve_call = [state |-> "idle", agent |-> PyNone, proxy |-> PyNone,
                       result |-> NoReply]
    /\ cache_call = NoCacheCall

session_vars ==
    <<summarization_client, registry, reg_last, reg_count, browser, clock, construction>>

other_vars == <<resolve_call, cache_call, budget_call>>

\* generate_surfer_reply(messages) is called
BeginTurn ==
    /\ pc = "idle"
    /\ \E conversation \in Conversations : inbound' = conversation
    /\ pc' = "reset"
    /\ UNCHANGED <<plan_view, exec_view, agent_reply, proxy_reply, reply, executed, prompts>>
    /\ UNCHANGED <<session_vars, other_vars>>

\* the start of the turn without the two reset() calls
ResetKeepingViews ==
    /\ pc = "reset"
    /\ pc' = "clone"
    /\ UNCHANGED <<inbound, plan_view, exec_view, agent_reply, proxy_reply, reply,
                   executed, prompts>>
    /\ UNCHANGED <<session_vars, other_vars>>

\* self._user_proxy.reset(); self._assistant.reset()
Reset ==
    /\ pc = "reset"
    /\ plan_view' = <<>>
    /\ exec_view' = <<>>
    /\ agent_reply' = PyNone
    /\ proxy_reply' = PyNone
    /\ reply' = NoReply
    /\ executed' = <<>>
    /\ prompts' = <<>>
    /\ pc' = "clone"
    /\ UNCHANGED <<inbound, session_vars, other_vars>>

\* the messages but the last are appended to the Planning role's view
ContextClone ==
    /\ pc = "clone"
    /\ plan_view' = SubSeq(inbound, 1, Len(inbound) - 1)
    /\ pc' = "remind"
    /\ UNCHANGED <<inbound, exec_view, agent_reply, proxy_reply, reply, executed, prompts>>
    /\ UNCHANGED <<session_vars, other_vars>>

\* the reminder sent with request_reply=True: the Planning role's model
\* answers it
SilentReminderAnswered ==
    /\ pc = "remind"
    /\ \E planned \in {Msg("assistant", PyStr(<<"It is on page 2.">>), <<>>)} :
          /\ plan_view' = plan_view \o
                             <<Msg("user", PyStr(Reminder(browser)), <<>>), planned>>
          /\ exec_view' = exec_view \o
                             <<Msg("assistant", PyStr(Reminder(browser)), <<>>),
                               [planned EXCEPT !.role = "user"]>>
    /\ pc' = "dispatch"
    /\ UNCHANGED <<inbound, agent_reply, proxy_reply, reply, executed, prompts>>
    /\ UNCHANGED <<session_vars, other_vars>>

\* the reminder appended to the messages the turn was called with as well
SilentReminderSurfaced ==
    /\ pc = "remind"
    /\ plan_view' = Append(plan_view, Msg("user", PyStr(Reminder(browser)), <<>>))
    /\ exec_view' = Append(exec_view, Msg("assistant", PyStr(Reminder(browser)), <<>>))
    /\ inbound' = Append(inbound, Msg("user", PyStr(Reminder(browser)), <<>>))
    /\ pc' = "dispatch"
    /\ UNCHANGED <<agent_reply, proxy_reply, reply, executed, prompts>>
    /\ UNCHANGED <<session_vars, other_vars>>

\* self._user_proxy.send(reminder, self._assistant, request_reply=False)
SilentReminder ==
    /\ pc = "remind"
    /\ plan_view' = Append(plan_view, Msg("user", PyStr(Reminder(browser)), <<>>))
    /\ exec_view' = Append(exec_view, Msg("assistant", PyStr(Reminder(browser)), <<>>))
    /\ pc' = "dispatch"
    /\ UNCHANGED <<inbound, agent_reply, proxy_reply, reply, executed, prompts>>
    /\ UNCHANGED <<session_vars, other_vars>>

\* self._user_proxy.send(messages[-1]["content"], self._assistant,
\* request_reply=True): the Planning role receives the content and its
\* model's reply goes back to the Execution role, which does not answer it
Dispatch ==
    /\ pc = "dispatch"
    /\ \E planned \in PlanningReplies :
          /\ Len(browser.history) + VisitsOfAll(planned.tool_calls, 1) <= MaxHistory
          /\ LET content == inbound[Len(inbound)].content
             IN  /\ plan_view' = plan_view \o <<Msg("user", content, <<>>), planned>>
                 /\ exec_view' = exec_view \o <<Msg("assistant", content, <<>>),
                                                [planned EXCEPT !.role = "user"]>>
    /\ pc' = "capture"
    /\ UNCHANGED <<inbound, agent_reply, proxy_reply, reply, executed, prompts>>
    /\ UNCHANGED <<session_vars, other_vars>>

\* agent_reply = self._user_proxy.chat_messages[self._assistant][-1]
Capture ==
    /\ pc = "capture"
    /\ agent_reply' = exec_view[Len(exec_view)]
    /\ pc' = "execute"
    /\ UNCHANGED <<inbound, plan_view, exec_view, proxy_reply, reply, executed, prompts>>
    /\ UNCHANGED <<session_vars, other_vars>>

\* proxy_reply = self._user_proxy.generate_reply(...)
AutoExecution ==
    /\ pc = "execute"
    /\ \E summarizer_ok \in BOOLEAN :
          \E r \in {AutoExecute(registry, exec_view, browser, clock + 1, summarizer_ok)} :
              /\ proxy_reply' = r.reply
              /\ browser' = r.b
              /\ executed' = r.executed
              /\ prompts' = r.prompts
              /\ clock' = IF Len(r.b.history) > Len(browser.history) THEN clock + 1 ELSE clock
    /\ pc' = "resolve"
    /\ UNCHANGED <<inbound, plan_view, exec_view, agent_reply, reply>>
    /\ UNCHANGED <<summarization_client, registry, reg_last, reg_count, construction,
                   other_vars>>

\* the two return statements
ResolveStep ==
    /\ pc = "resolve"
    /\ reply' = Resolve(agent_reply, proxy_reply)
    /\ pc' = "done"
    /\ UNCHANGED <<inbound, plan_view, exec_view, agent_reply, proxy_reply, executed, prompts>>
    /\ UNCHANGED <<session_vars, other_vars>>

\* the call returns: its locals are gone, the two roles keep their views
EndTurn ==
    /\ pc = "done"
    /\ pc' = "idle"
    /\ agent_reply' = PyNone
    /\ proxy_reply' = PyNone
    /\ reply' = NoReply
    /\ executed' = <<>>
    /\ prompts' = <<>>
    /\ UNCHANGED <<inbound, plan_view, exec_view>>
    /\ UNCHANGED <<session_vars, other_vars>>

\* a tool is registered on the constructed agent
RegisterTool ==
    /\ pc = "idle"
    /\ reg_count < MaxExtraRegs
    /\ \E name \in {"visit_page", "download_file", "open_new_tab", "close_tab"},
          handler \in {"_visit_page", "_download_file", "_page_up"} :
          LET r == Register(registry, [name |-> name, handler |-> handler])
          IN  /\ registry' = r.reg
              /\ reg_last' = [name |-> name, handler |-> handler, error |-> r.error]
    /\ reg_count' = reg_count + 1
    /\ UNCHANGED <<summarization_client, browser, clock, construction, turn_vars,
                   other_vars>>

\* another agent is constructed, with any llm_config and any
\* summarizer_llm_config; when the constructor raises there is no new agent
Construct ==
    /\ pc = "idle"
    /\ reg_count = 0
    /\ construction.state = "first"
    /\ \E llm_config \in LlmConfigs, summarizer_llm_config \in LlmConfigs :
          \E agent \in {WebSurferAgent(llm_config, summarizer_llm_config)} :
              /\ construction' = [state |-> "again", llm_config |-> llm_config,
                                  summarizer_llm_config |-> summarizer_llm_config,
                                  raised |-> agent.raised]
              /\ summarization_client' =
                    IF agent.raised = "none" THEN agent.summarization_client
                    ELSE summarization_client
              /\ registry' = IF agent.raised = "none" THEN agent.registry ELSE registry
              /\ browser' = IF agent.raised = "none" THEN NewBrowser(clock) ELSE browser
    /\ UNCHANGED <<reg_last, reg_count, clock, turn_vars, other_vars>>

Next ==
    \/ BeginTurn
    \/ Reset
    \/ ContextClone
    \/ SilentReminder
    \/ Dispatch
    \/ Capture
    \/ AutoExecution
    \/ ResolveStep
    \/ EndTurn

Spec == Init /\ [][Next]_vars

\* the steps of a turn, in order: from each position of the relay to the
\* next
StepOrder ==
    {<<"idle", "reset">>, <<"reset", "clone">>, <<"clone", "remind">>,
     <<"remind", "dispatch">>, <<"dispatch", "capture">>, <<"capture", "execute">>,
     <<"execute", "resolve">>, <<"resolve", "done">>, <<"done", "idle">>}

\* the relay moves on from a step of a turn it is in
Advance ==
    \E step \in StepOrder \ {<<"idle", "reset">>, <<"done", "idle">>} :
        pc = step[1] /\ pc' = step[2]

\* the statements of generate_surfer_reply run one after the other: the
\* calls to the two roles, the model behind the Planning role and the
\* tools return, so a turn that has begun is not held for ever at a step
TurnFairness == WF_pc(Advance)

SpecTurn == Init /\ [][Next]_vars /\ TurnFairness

\* the candidates Resolve can be handed: the fallback candidate
CandidateAgents ==
    {PyNone,
     Msg("user", PyNone, <<>>),
     Msg("user", PyStr(EmptyText), <<>>),
     Msg("user", PyStr(<<"It is on page 2.">>), <<>>),
     Msg("user", PyNone, <<Call("page_down", None, None)>>)}

\* and the Execution role's reply: "", None, a message, a str
CandidateProxies ==
    {PyStr(EmptyText), PyNone, PyStr(<<"exit">>), PyStr(<<"TERMINATE">>)}
      \cup {Msg(role, content, <<>>) :
              role \in {"tool", "function", "user"},
              content \in {PyNone, PyStr(EmptyText), PyStr(<<"Address: about:blank">>),
                           PyStr(<<"Error: Function open_new_tab not found.">>)}}

\* the resolve step is handed two candidates
ResolveCall ==
    /\ resolve_call.state = "idle"
    /\ \E agent \in CandidateAgents, proxy \in CandidateProxies :
          resolve_call' = [state |-> "called", agent |-> agent, proxy |-> proxy,
                           result |-> NoReply]
    /\ UNCHANGED <<session_vars, turn_vars, cache_call, budget_call>>

\* and returns or raises
ResolveReturn ==
    /\ resolve_call.state = "called"
    /\ resolve_call' = [resolve_call EXCEPT
                          !.state = "returned",
                          !.result = Resolve(resolve_call.agent, resolve_call.proxy)]
    /\ UNCHANGED <<session_vars, turn_vars, cache_call, budget_call>>

\* the resolve step on every shape of candidate
SpecResolve == Init /\ [][ResolveCall \/ ResolveReturn]_vars

\* a caller asks for a cache
CacheRequest ==
    /\ cache_call.state = "idle"
    /\ \E env \in Environments, seed \in Seeds, redis_url \in RedisUrls,
          cache_path_root \in CachePathRoots, cosmosdb_config \in CosmosConfigs :
          cache_call' =
              [state |-> "returned", env |-> env, seed |-> seed, redis_url |-> redis_url,
               cache_path_root |-> cache_path_root, cosmosdb_config |-> cosmosdb_config,
               result |-> RequestCache(env, seed, redis_url, cache_path_root,
                                       cosmosdb_config)]
    /\ UNCHANGED <<session_vars, turn_vars, resolve_call, budget_call>>

\* the lines a page content is made of: a blank line, a short line, a long
\* line, and a line too long for the buffer on its own
ContentLines == {"", "w", "a1", "X"}

\* browser.page_content: any text of these lines
PageContents == UNION {SeqsOf(ContentLines, n) : n \in 1..MaxContentLines}

\* the buffer loop of _read_page_and_answer on a page content
FillSummaryBuffer ==
    /\ budget_call.state = "idle"
    /\ \E content \in PageContents :
          budget_call' = [state |-> "returned", content |-> content,
                          buffer |-> SummaryBuffer(content)]
    /\ UNCHANGED <<session_vars, turn_vars, resolve_call, cache_call>>

\* the summarization buffer on every page content
SpecBudget == Init /\ [][FillSummaryBuffer]_vars

\* the cache requests alone
SpecCache == Init /\ [][CacheRequest]_vars

\* the construction of an agent and the registrations on it
SpecRegistry == Init /\ [][Construct \/ RegisterTool]_vars

(***************************************************************************)
(* The properties.                                                         *)
(***************************************************************************)
Last(q) == q[Len(q)]

\* the invocations the Planning role's reply of this turn encodes
PlannedCalls == Last(plan_view).tool_calls

Registered(calls) == SelectSeq(calls, LAMBDA c : c.name \in ToolNames(registry))

NamesOf(q) == [i \in 1..Len(q) |-> q[i].name]

\* the turn is past its dispatch, so the Planning role has replied
Planned == pc \in {"capture", "execute", "resolve", "done"}

\* C1: in a turn whose Planning reply encodes no tool invocation, the
\* Execution role's reply is the default "" and the turn returns exactly
\* the content of the Planning role's last message, running no handler.
C1_NoToolTurn ==
    (pc = "done" /\ PlannedCalls = <<>>) =>
        /\ IsDefaultReply(proxy_reply)
        /\ reply = [raised |-> "none", value |-> Last(plan_view).content]
        /\ executed = <<>>

C1_Witness ==
    /\ pc = "done"
    /\ PlannedCalls = <<>>
    /\ reply.value = PyStr(<<"It is on page 2.">>)

\* the turn ran exactly one invocation, of a registered tool, whose handler
\* returned
OneValidCall ==
    /\ pc = "done"
    /\ Len(PlannedCalls) = 1
    /\ PlannedCalls[1].name \in ToolNames(registry)
    /\ Len(executed) = 1
    /\ executed[1].name = PlannedCalls[1].name
    /\ ~executed[1].raised

\* the value is a str made of a header that starts with the address of the
\* session and ends with the viewport line of the session as it stands, the
\* separator line, and a body
HasEnvelope(v, b) ==
    /\ v.kind = "str"
    /\ v.s[1] = "Address: " \o b.address
    /\ \E k \in 2..(Len(v.s) - 1) :
          /\ v.s[k] = "======================="
          /\ v.s[k - 1] = "Viewport position: Showing page "
                             \o IntStr(b.viewport_current_page + 1) \o " of "
                             \o IntStr(Len(b.viewport_pages)) \o "."
          /\ \A j \in 1..(k - 1) : v.s[j] # ""

SummarizationNames == {"read_page_and_answer", "summarize_page"}

Chosen(agent, proxy) == IF IsDefaultReply(proxy) THEN agent ELSE proxy

\* C3: whatever the shape of the Execution role's reply ("", None, a
\* message, a non-empty str), if the chosen candidate is None or a message
\* of None content, the resolve step returns None and does not raise.
C3_NonePropagates ==
    resolve_call.state = "returned" =>
        LET chosen == Chosen(resolve_call.agent, resolve_call.proxy)
        IN  (IsNone(chosen) \/ (chosen.kind = "dict" /\ IsNone(chosen.content))) =>
                resolve_call.result = [raised |-> "none", value |-> PyNone]

C3_Witness ==
    /\ resolve_call.state = "returned"
    /\ IsNone(resolve_call.proxy)
    /\ ~IsNone(resolve_call.agent)
    /\ resolve_call.result = [raised |-> "none", value |-> PyNone]

\* the turn ran into a tool error: an invocation names no registered tool,
\* or a handler raised
ToolError ==
    \/ \E k \in 1..Len(PlannedCalls) : PlannedCalls[k].name \notin ToolNames(registry)
    \/ \E k \in 1..Len(executed) : executed[k].raised

\* C4: a turn that runs into a tool error still ends at the resolve step
\* and returns, without raising, the error text as its reply; no handler
\* is run more often than it is invoked.
C4_ToolErrorsRecovered ==
    (pc = "done" /\ ToolError) =>
        /\ reply.raised = "none"
        /\ reply.value.kind = "str"
        /\ reply.value = proxy_reply.content
        /\ Len(PlannedCalls) = 1 =>
              reply.value \in
                 {PyStr(<<"Error: Function " \o PlannedCalls[1].name \o " not found.">>),
                  PyStr(<<"Error: summarizer failed">>)}
        /\ Len(executed) <= Len(PlannedCalls)

C4_Witness ==
    /\ pc = "done"
    /\ Len(executed) = 1
    /\ executed[1].name = "summarize_page"
    /\ executed[1].raised
    /\ reply = [raised |-> "none", value |-> PyStr(<<"Error: summarizer failed">>)]

\* C5 as stated: at most one handler is executed in a turn, whatever the
\* Planning role emits.
C5_Original == Len(executed) <= 1

\* C5, amended: in a turn the Execution role runs one handler for each
\* invocation of a registered tool the Planning role's message encodes, in
\* order and once each; so at most one when the message encodes at most one.
C5_OneHandlerPerInvocation ==
    /\ pc \in {"resolve", "done"} => NamesOf(executed) = NamesOf(Registered(PlannedCalls))
    /\ pc \notin {"resolve", "done"} => executed = <<>>
    /\ (Planned /\ Len(PlannedCalls) <= 1) => Len(executed) <= 1

C5_Witness ==
    /\ pc = "done"
    /\ Len(PlannedCalls) = 2
    /\ Len(executed) = 2

\* the request for a cache has been answered
Answered == cache_call.state = "returned"

\* the Redis candidate is configured and its client is available
RedisUsable == Truthy(cache_call.redis_url) /\ cache_call.env.redis

\* the Cosmos candidate is configured in full and its client is available
CosmosUsable == CosmosComplete(cache_call.cosmosdb_config) /\ cache_call.env.cosmos

\* C6 as stated: for every input and every availability of the two clients
\* the request yields exactly one cache and raises nothing, and the cache
\* is the disk one when no earlier candidate is configured and available.
C6_Original ==
    Answered =>
        /\ cache_call.result.raised = "none"
        /\ cache_call.result.backend \in {"redis", "cosmos", "disk"}
        /\ cache_call.result.constructed = {cache_call.result.backend}
        /\ (~RedisUsable /\ ~CosmosUsable) => cache_call.result.backend = "disk"

\* C7 as stated: with redis_url set, the Redis client unavailable, a
\* complete cosmosdb_config and the Cosmos client unavailable, the request
\* yields a disk cache rooted at {cache_path_root}/{seed}.
C7_Original ==
    (/\ Answered
     /\ Truthy(cache_call.redis_url) /\ ~cache_call.env.redis
     /\ CosmosComplete(cache_call.cosmosdb_config) /\ ~cache_call.env.cosmos) =>
        /\ cache_call.result.backend = "disk"
        /\ cache_call.result.root =
              cache_call.cache_path_root \o "/" \o SeedStr(cache_call.seed)

\* C8 as stated: with redis_url given and the Redis client available the
\* request yields a Redis cache and constructs no other; a Cosmos cache is
\* returned only when the Redis candidate was not configured or unavailable.
C8_Original ==
    Answered =>
        /\ RedisUsable =>
              /\ cache_call.result.backend = "redis"
              /\ cache_call.result.constructed = {"redis"}
        /\ cache_call.result.backend = "cosmos" => ~RedisUsable

\* C9 as stated: a Cosmos cache is constructed only for a cosmosdb_config
\* holding all three keys; for a config that misses one, and no usable
\* Redis candidate, the request yields the disk cache.
C9_Original ==
    Answered =>
        /\ "cosmos" \in cache_call.result.constructed =>
              CosmosComplete(cache_call.cosmosdb_config)
        /\ (/\ cache_call.cosmosdb_config.given
            /\ ~CosmosComplete(cache_call.cosmosdb_config)
            /\ ~RedisUsable) =>
              /\ cache_call.result.backend = "disk"
              /\ "cosmos" \notin cache_call.result.constructed

\* C10: a registration under a name already in the registry fails with
\* DuplicateToolError and leaves the registry as it was, the first handler
\* still bound to the name; the names of the registry are always unique.
C10_DuplicateRegistration ==
    /\ [](\A i, j \in 1..Len(registry) : registry[i].name = registry[j].name => i = j)
    /\ [][reg_count' # reg_count =>
            IF reg_last'.name \in ToolNames(registry)
            THEN /\ reg_last'.error = "DuplicateToolError"
                 /\ registry' = registry
            ELSE /\ reg_last'.error = "none"
                 /\ HandlerOf(registry', reg_last'.name) = reg_last'.handler]_vars

C10_Witness ==
    /\ reg_last = [name |-> "visit_page", handler |-> "_page_up",
                   error |-> "DuplicateToolError"]
    /\ HandlerOf(registry, "visit_page") = "_visit_page"
    /\ "open_new_tab" \in ToolNames(registry)

\* the summarizer configuration of the agent is False
SummarizationDisabled ==
    SummarizerLlmConfig(construction.summarizer_llm_config, construction.llm_config)
        = "False"

\* the registry is as the constructor built it
AsConstructed == construction.raised = "none" /\ reg_count = 0

NotSummarization(tool) == tool.name \notin SummarizationNames

\* the registry of the agent constructed with the same llm_config and
\* summarization enabled, without the two summarization tools
EnabledRegistryWithoutSummarization ==
    SelectSeq(WebSurferAgent(construction.llm_config, "config").registry, NotSummarization)

\* C11 as stated: with summarization disabled the registry built at
\* construction holds neither summarization tool and holds the eight other
\* tools as it does with summarization enabled.
C11_Original ==
    (AsConstructed /\ SummarizationDisabled) =>
        /\ ToolNames(registry) \cap SummarizationNames = {}
        /\ registry = BrowsingTools

\* C11, amended: with summarization disabled the registry built at
\* construction holds neither summarization tool and is otherwise the
\* registry of the agent with summarization enabled; it holds the eight
\* other tools when llm_config is a configuration and no tool at all when
\* llm_config is None or False.
C11_SummarizationDisabled ==
    (AsConstructed /\ SummarizationDisabled) =>
        /\ ToolNames(registry) \cap SummarizationNames = {}
        /\ registry = EnabledRegistryWithoutSummarization
        /\ construction.llm_config = "config" => registry = BrowsingTools
        /\ construction.llm_config # "config" => registry = <<>>

C11_Witness ==
    /\ construction = [state |-> "again", llm_config |-> "config",
                       summarizer_llm_config |-> "False", raised |-> "none"]
    /\ reg_count = 0
    /\ ~summarization_client
    /\ NamesOf(registry) =
          <<"informational_web_search", "navigational_web_search", "visit_page",
            "download_file", "page_up", "page_down", "find_on_page_ctrl_f", "find_next">>

\* 0 <= currentPageIndex < len(contentPages) whenever contentPages is not
\* empty
ViewportInRange(b) ==
    Len(b.viewport_pages) > 0 =>
        /\ 0 <= b.viewport_current_page
        /\ b.viewport_current_page < Len(b.viewport_pages)

\* C12: in every state of every turn, and after every handler run, the
\* viewport index of the session is within its viewport pages; a
\* navigation to a page of fewer pages leaves it within them.
C12_ViewportIndex ==
    /\ ViewportInRange(browser)
    /\ \A k \in 1..Len(executed) : ViewportInRange(executed[k].after)

C12_Witness ==
    /\ Len(executed) = 1
    /\ executed[1].before.address = "http://a"
    /\ executed[1].before.viewport_current_page = 2
    /\ browser.address = "http://b"
    /\ Len(browser.viewport_pages) = 1
    /\ browser.viewport_current_page = 0

\* the index (1-based) of the separator line of a handler's reply, 0 when
\* there is none
SeparatorAt(text) ==
    IF \E k \in 1..Len(text) : text[k] = "======================="
    THEN CHOOSE k \in 1..Len(text) :
            /\ text[k] = "======================="
            /\ \A j \in 1..(k - 1) : text[j] # "======================="
    ELSE 0

\* the handler's reply is the header of session b, the separator line, and
\* the body
IsStateReply(text, b, body) ==
    /\ HasEnvelope(PyStr(text), b)
    /\ SubSeq(text, SeparatorAt(text) + 1, Len(text)) = body

AtFirstPage(b) == b.viewport_current_page = 0

AtLastPage(b) == b.viewport_current_page = Len(b.viewport_pages) - 1

\* the run is a page_up on the first page or a page_down on the last
PaginationAtBound(e) ==
    \/ e.name = "page_up" /\ AtFirstPage(e.before)
    \/ e.name = "page_down" /\ AtLastPage(e.before)

\* C13: page_up on the first viewport page and page_down on the last do
\* not raise, leave the whole session (index, address, title, pages,
\* history) as it was, and return the header and the current viewport.
C13_PaginationBounds ==
    \A k \in 1..Len(executed) :
        PaginationAtBound(executed[k]) =>
            /\ ~executed[k].raised
            /\ executed[k].after = executed[k].before
            /\ IsStateReply(executed[k].text, executed[k].before,
                            Viewport(executed[k].before))

C13_Witness ==
    /\ pc = "done"
    /\ Len(executed) = 1
    /\ executed[1].name = "page_down"
    /\ executed[1].before.address = "http://a"
    /\ executed[1].before.viewport_current_page = 2
    /\ browser.viewport_current_page = 2
    /\ reply.value = PyStr(<<"Address: http://a", "Title: A",
                             "Viewport position: Showing page 3 of 3.",
                             "=======================", "a5">>)

\* the search string occurs on no viewport page of the session
NoMatch(b, search_string) ==
    \A i \in 0..(Len(b.viewport_pages) - 1) : ~PageMatches(b, i, search_string)

\* the Session State of the spec: address, title, pages, index and history
SessionState(b) ==
    <<b.address, b.page_title, b.page_content, b.viewport_pages,
      b.viewport_current_page, b.history>>

NotFoundNotice(search_string) ==
    <<"The search string '" \o search_string \o "' was not found on this page.">>

\* C14: find_on_page_ctrl_f(s) on a page with no match for s does not
\* raise, returns the header, the separator line and, as the whole body,
\* the notice naming s (not the viewport), and leaves the viewport
\* index and the rest of the Session State as they were.
C14_FindNotFound ==
    \A k \in 1..Len(executed) :
        (/\ executed[k].name = "find_on_page_ctrl_f"
         /\ NoMatch(executed[k].before, executed[k].call.arg)) =>
            /\ ~executed[k].raised
            /\ IsStateReply(executed[k].text, executed[k].before,
                            NotFoundNotice(executed[k].call.arg))
            /\ SessionState(executed[k].after) = SessionState(executed[k].before)

C14_Witness ==
    /\ pc = "done"
    /\ Len(executed) = 1
    /\ executed[1].call = Call("find_on_page_ctrl_f", "zzz", None)
    /\ executed[1].before.address = "http://a"
    /\ executed[1].before.viewport_current_page = 1
    /\ browser.viewport_current_page = 1
    /\ reply.value = PyStr(<<"Address: http://a", "Title: A",
                             "Viewport position: Showing page 2 of 3.",
                             "=======================",
                             "The search string 'zzz' was not found on this page.">>)

\* the text leaves room for the summary: count_token(text) + 1024 <= 32000
Fits(text) == count_token(text) + SummaryRoom <= TokenLimit

\* the first n lines of a content
FirstLines(content, n) == IF n = 0 THEN EmptyText ELSE SubSeq(content, 1, n)

\* buffer is a strict prefix of the content that ends at a line boundary
StrictLinePrefix(buffer, content) ==
    /\ buffer # content
    /\ \E n \in 0..(Len(content) - 1) : buffer = FirstLines(content, n)

Filled == budget_call.state = "returned"

\* C15 as stated: a content that fits is the buffer with nothing removed; of
\* a content that does not fit the buffer is a strict prefix ending at a
\* line boundary; the buffer always leaves room for the summary.
C15_Original ==
    Filled =>
        /\ Fits(budget_call.content) => budget_call.buffer = budget_call.content
        /\ ~Fits(budget_call.content) =>
              StrictLinePrefix(budget_call.buffer, budget_call.content)
        /\ Fits(budget_call.buffer)

\* C15, amended: the buffer is the content with its leading and trailing
\* whitespace stripped when the content fits; when it does not, the buffer
\* is the stripped text of the longest run of whole lines from the start of
\* the content that fits (a strict prefix); the buffer always leaves room
\* for the summary.
C15_TokenBudget ==
    Filled =>
        /\ Fits(budget_call.content) => budget_call.buffer = Strip(budget_call.content)
        /\ ~Fits(budget_call.content) =>
              \E n \in 0..(Len(budget_call.content) - 1) :
                  /\ budget_call.buffer = Strip(FirstLines(budget_call.content, n))
                  /\ Fits(FirstLines(budget_call.content, n))
                  /\ ~Fits(FirstLines(budget_call.content, n + 1))
        /\ Fits(budget_call.buffer)

C15_Witness ==
    /\ Filled
    /\ budget_call.content = <<"a1", "a1", "a1", "a1">>
    /\ budget_call.buffer = <<"a1", "a1", "a1">>

\* the question of a run of a summarization tool: summarize_page has none
QuestionOf(e) == IF e.name = "summarize_page" THEN None ELSE e.call.question

\* the first line of the prompt: it embeds the question when one is given
PromptHead(question) ==
    IF question = None
    THEN "Please summarize the following into one or two paragraph:"
    ELSE "Please summarize the following into one or two paragraphs with respect to '"
             \o question \o "':"

\* the prompt is its first line, a blank line, and the buffer
IsPromptFor(prompt, question, buffer) ==
    prompt = <<PromptHead(question), "">> \o buffer

\* C16: a run of read_page_and_answer or summarize_page on a page whose
\* buffer is empty returns "Nothing to summarize." and sends no prompt to
\* the summarizer; on a page whose buffer is not empty it sends exactly
\* one, which embeds the question when there is one and is the generic
\* prompt when there is none (always so for summarize_page).
C16_SummarizerCalls ==
    \A k \in 1..Len(executed) :
        executed[k].name \in SummarizationNames =>
            IF SummaryBuffer(executed[k].after.page_content) = EmptyText
            THEN /\ ~executed[k].raised
                 /\ executed[k].text = <<"Nothing to summarize.">>
                 /\ executed[k].prompts = <<>>
            ELSE /\ Len(executed[k].prompts) = 1
                 /\ IsPromptFor(executed[k].prompts[1], QuestionOf(executed[k]),
                                SummaryBuffer(executed[k].after.page_content))

C16_Witness ==
    /\ pc = "done"
    /\ Len(executed) = 1
    /\ executed[1].call = Call("read_page_and_answer", "http://a", "why")
    /\ prompts =
          <<(<<"Please summarize the following into one or two paragraphs with respect to 'why':",
               "", "a1", "a2", "a3">>)>>
    /\ reply.value = PyStr(SummaryText)

\* the reminder as each role holds it: received by the Planning role, sent
\* by the Execution role
ReminderReceived == Msg("user", PyStr(Reminder(browser)), <<>>)

ReminderSent == Msg("assistant", PyStr(Reminder(browser)), <<>>)

\* C17: when the last inbound message is about to be dispatched, in the
\* first turn and in every later one, the Planning role's view is this
\* turn's inbound messages but the last, in order, then the reminder, and
\* the Execution role's view is the reminder alone: nothing of an earlier
\* turn is in either.
C17_NoStateAcrossTurns ==
    pc = "dispatch" =>
        /\ plan_view = SubSeq(inbound, 1, Len(inbound) - 1) \o <<ReminderReceived>>
        /\ exec_view = <<ReminderSent>>

C17_Witness ==
    /\ pc = "dispatch"
    /\ Len(inbound) = 2
    /\ Len(browser.history) = 3
    /\ browser.viewport_current_page = 1
    /\ Len(plan_view) = 2
    /\ Len(exec_view) = 1

\* the reminders of the pages of the web
Reminders ==
    {PyStr(<<"Your browser is currently open to the page '" \o Shown(PageTitle(a))
               \o "' at the address '" \o a \o "'.">>) : a \in Addresses}

InTurn == pc # "idle"

\* C18: no step of a turn changes the inbound messages the turn was called
\* with (length, order, content); the reminder is in none of them and is
\* not what the turn returns.
C18_InboundUntouched ==
    /\ [][InTurn => inbound' = inbound]_vars
    /\ [](InTurn => /\ inbound \in Conversations
                    /\ \A i \in 1..Len(inbound) : inbound[i].content \notin Reminders
                    /\ reply.value \notin Reminders)

C18_Witness ==
    /\ pc = "done"
    /\ inbound = <<Earlier, Request>>
    /\ Len(executed) = 1
    /\ Len(plan_view) = 4
    /\ plan_view[2].content \in Reminders
    /\ reply.value.kind = "str"

\* the messages with which the Planning role's model replied, in its view
ModelReplies == SelectSeq(plan_view, LAMBDA m : m.role = "assistant" /\ m \notin
                                                  {inbound[i] : i \in 1..Len(inbound)})

\* C19: the steps of a turn follow one another in the order Reset, Context
\* clone, Silent reminder, Dispatch, Capture, Auto-execution, Resolve, each
\* once; the Planning role's model does not reply to the reminder, its one
\* reply of the turn being the one to the dispatched message; the result
\* is set by the Resolve step alone; and a turn at its Dispatch always
\* reaches the end of Resolve with a result.
C19_TurnOrder ==
    /\ [][pc' # pc => <<pc, pc'>> \in StepOrder]_vars
    /\ [][reply' # reply => (pc = "resolve" \/ reply' = NoReply)]_vars
    /\ [](pc \in {"clone", "remind", "dispatch"} => ModelReplies = <<>>)
    /\ [](pc = "dispatch" => Last(plan_view) = ReminderReceived)
    /\ [](Planned => /\ Len(plan_view) = Len(inbound) + 2
                     /\ ModelReplies = <<Last(plan_view)>>
                     /\ plan_view[Len(plan_view) - 1] =
                           Msg("user", Last(inbound).content, <<>>))
    /\ (pc = "dispatch") ~> (pc = "done" /\ reply.raised = "none")

C19_Witness ==
    /\ pc = "done"
    /\ Len(inbound) = 2
    /\ Len(browser.history) = 3
    /\ Len(executed) = 2
    /\ reply.raised = "none"
    /\ ~IsNone(reply.value)

\* the session after a navigation to the search address of the query
OnSearchResults(e) == visit_page(e.before, SearchAddress(e.call.arg), 0)

\* the target of the first markdown link to an http address in a content
FirstHttpLink(content) ==
    IF \E k \in 1..Len(content) : LinkIn(content[k]) # None
    THEN LinkIn(content[CHOOSE k \in 1..Len(content) :
                           /\ LinkIn(content[k]) # None
                           /\ \A j \in 1..(k - 1) : LinkIn(content[j]) = None])
    ELSE None

\* the addresses of a visit history, in order
AddressesOf(history) == [i \in 1..Len(history) |-> history[i][1]]

\* C20: navigational_web_search(query) visits the search address of the
\* query and then, when the search results hold a markdown link to an
\* http address, the target of the first such link, and otherwise stays on
\* the search results; the visit history gains these two addresses, or
\* the one; the reply is the header and the first viewport of the page
\* the session is on at the end.
C20_NavigationalSearch ==
    \A k \in 1..Len(executed) :
        executed[k].name = "navigational_web_search" =>
            /\ ~executed[k].raised
            /\ AddressesOf(executed[k].after.history) =
                  AddressesOf(executed[k].before.history)
                    \o <<SearchAddress(executed[k].call.arg)>>
                    \o (IF FirstHttpLink(OnSearchResults(executed[k]).page_content) # None
                        THEN <<FirstHttpLink(OnSearchResults(executed[k]).page_content)>>
                        ELSE <<>>)
            /\ executed[k].after.address = Last(executed[k].after.history)[1]
            /\ executed[k].after.page_content = PageContent(executed[k].after.address)
            /\ IsStateReply(executed[k].text, executed[k].after,
                            Viewport(executed[k].after))

C20_Witness ==
    /\ pc = "done"
    /\ Len(executed) = 1
    /\ executed[1].call = Call("navigational_web_search", "q1", None)
    /\ AddressesOf(browser.history) = <<"about:blank", "bing: q1", "http://a">>
    /\ reply.value = PyStr(<<"Address: http://a", "Title: A",
                             "Viewport position: Showing page 1 of 3.",
                             "=======================", "a1", "a2">>)

\* the run was given a url that is not the address the session was on
UrlElsewhere(e) == e.call.arg # None /\ e.call.arg # e.before.address

\* C21: a run of read_page_and_answer or summarize_page navigates exactly
\* when a url is given that differs from the current address, and then
\* once, to that url; with no url, or the url of the current address, the
\* address, title, pages, viewport index and visit history are as they
\* were, whether the summarizer is called (and answers or raises) or not.
C21_NavigationWhenNeeded ==
    \A k \in 1..Len(executed) :
        executed[k].name \in SummarizationNames =>
            IF UrlElsewhere(executed[k])
            THEN /\ AddressesOf(executed[k].after.history) =
                       Append(AddressesOf(executed[k].before.history),
                              executed[k].call.arg)
                 /\ executed[k].after.address = executed[k].call.arg
                 /\ executed[k].after.viewport_current_page = 0
            ELSE SessionState(executed[k].after) = SessionState(executed[k].before)

C21_Witness ==
    /\ pc = "done"
    /\ Len(executed) = 1
    /\ executed[1].call = Call("read_page_and_answer", "http://a", "why")
    /\ executed[1].before.address = "http://a"
    /\ executed[1].before.viewport_current_page = 2
    /\ Len(executed[1].prompts) = 1
    /\ browser.viewport_current_page = 2
    /\ AddressesOf(browser.history) = <<"about:blank", "http://a">>

=============================================================================
